---- MODULE Spec2Model ----
(***************************************************************************)
(* Model of good-filings' src/main.py: the PDF chunker                     *)
(* (split_pdf_into_chunks), the conversion orchestrator (read_as_markdown), *)
(* the segment cache (response_cache, cache_counter, get_markdown_segment) *)
(* and the filing download (download_sec_filing).                          *)
(*                                                                         *)
(* A text is a string.  A JSON null is the empty tuple and a present        *)
(* optional value v is <<v>>.                                              *)
(***************************************************************************)
EXTENDS Integers, Sequences, FiniteSets, TLC

VARIABLES
    response_cache,   \* main.py:24  dict: cache id -> text
    cache_counter,    \* main.py:25
    issued,           \* ghost: the stores made, in order: cache id and text
    segCall,          \* the last get_markdown_segment call: arguments and result
    chain,            \* ghost: a caller following next_offset from offset 0
    op,               \* ghost: the tool the last step ran
    splitCall,        \* the last direct call of split_pdf_into_chunks
    req,              \* the read_as_markdown invocations: locals and position
    running,          \* the invocation the event loop is running, 0 when none
    stdout,           \* sys.stdout
    stderr,           \* sys.stderr
    scratch,          \* the temporary directories that exist
    download          \* the last call of download_sec_filing

cacheVars == <<response_cache, cache_counter, issued>>
orchVars == <<req, running, stdout, stderr, scratch>>
vars == <<response_cache, cache_counter, issued, segCall, chain, op, splitCall,
          req, running, stdout, stderr, scratch, download>>

Min(a, b) == IF a < b THEN a ELSE b
Max(a, b) == IF a > b THEN a ELSE b

None == <<>>
Some(v) == <<v>>

(***************************************************************************)
(* Bounds of the model.                                                    *)
(***************************************************************************)
\* SpecCache: the longest cached text spans MaxSegs full segments plus one.
MaxSegs == 2
\* SpecCache: number of texts stored.
MaxCached == 1
\* SpecChunk: the largest page count and the largest requested chunk size.
MaxPages == 121
MaxPerChunk == 42
\* Spec: number of read_as_markdown invocations, which may overlap.
MaxReqs == 2
\* SpecFiling: the largest number of rows of a filing index.
MaxFilings == 3

(***************************************************************************)
(* The chunker.                                                            *)
(***************************************************************************)
\* main.py:71, and the default of main.py:63
MaxChunkPages == 40

\* Python's range(0, stop, step), step > 0, as a sequence.
PyRange(stop, step) ==
    [k \in 1..((stop + step - 1) \div step) |-> (k - 1) * step]

\* Mutant: the ceiling is not applied.
ClampPages_None(pages_per_chunk) == pages_per_chunk

\* main.py:71
ClampPages(pages_per_chunk) == Min(pages_per_chunk, MaxChunkPages)

\* main.py:84  temp_dir / f"chunk_{start_page}_{end_page}.pdf"
ChunkPath(temp_dir, start_page, end_page) ==
    <<temp_dir, "chunk_" \o ToString(start_page) \o "_" \o ToString(end_page) \o ".pdf">>

\* main.py:77-88: the tuples appended by the loop, in order.
ChunkList(total_pages, pages_per_chunk, temp_dir) ==
    LET starts == PyRange(total_pages, pages_per_chunk)
    IN  [k \in 1..Len(starts) |->
            LET start_page == starts[k]
                end_page == Min(start_page + pages_per_chunk, total_pages)
            IN  <<start_page, end_page, ChunkPath(temp_dir, start_page, end_page)>>]

\* A PDF file: whether PdfReader can open it, and its len(reader.pages).
Pdf(name, readable, pages) == [name |-> name, readable |-> readable, pages |-> pages]

\* main.py:63-90: split_pdf_into_chunks(pdf_path, pages_per_chunk), for
\* pages_per_chunk >= 1.  temp_dir is the directory mkdtemp hands out and
\* io says what the file system does: "ok", "mkdtemp" (the directory cannot
\* be created) or "write" (writing the first chunk file fails).  created
\* tells whether the directory exists when the call ends.
split_pdf_into_chunks(pdf, pages_per_chunk, temp_dir, io) ==
    LET per_chunk == ClampPages(pages_per_chunk)
    IN  IF ~pdf.readable
        THEN [outcome |-> "raised", error |-> "read", created |-> FALSE]
        ELSE IF io = "mkdtemp"
        THEN [outcome |-> "raised", error |-> "write", created |-> FALSE]
        ELSE
        LET chunks == ChunkList(pdf.pages, per_chunk, temp_dir)
        IN  IF io = "write" /\ Len(chunks) > 0
            THEN [outcome |-> "raised", error |-> "write", created |-> TRUE]
            ELSE [outcome  |-> "returned",
                  chunks   |-> chunks,
                  temp_dir |-> temp_dir,
                  created  |-> TRUE]

(***************************************************************************)
(* The segment cache.                                                      *)
(***************************************************************************)
\* main.py:201
length == 100000

\* Mutant: the id is made from the number of cached texts, less one.
CacheId_Stale(n) == <<"markdown_", IF n > 0 THEN n - 1 ELSE 0>>

\* main.py:174  f"markdown_{cache_counter}"
CacheId(n) == <<"markdown_", n>>

\* Python's s[a:b] on a string (negative indices count from the end, both
\* ends are clipped to the string).
PySlice(s, a, b) ==
    LET n == Len(s)
        lo == IF a < 0 THEN Max(n + a, 0) ELSE Min(a, n)
        hi == IF b < 0 THEN Max(n + b, 0) ELSE Min(b, n)
    IN  SubSeq(s, lo + 1, hi)

\* Python's d[k] = v on a dict.
DictSet(d, k, v) == [x \in DOMAIN d \cup {k} |-> IF x = k THEN v ELSE d[x]]

\* Mutant: the counter is not advanced.
StoreInCache_NoIncrement(cache, counter, result_text) ==
    LET cache_id == CacheId(counter)
    IN  [cache   |-> DictSet(cache, cache_id, result_text),
         counter |-> counter,
         ret     |-> [status      |-> "success",
                      cache_id    |-> cache_id,
                      total_chars |-> Len(result_text)]]

\* main.py:172-185: the store at the end of read_as_markdown; no await
\* separates these statements.  The value is the new cache, the new counter
\* and the returned JSON object.
StoreInCache(cache, counter, result_text) ==
    LET cache_id == CacheId(counter)
    IN  [cache   |-> DictSet(cache, cache_id, result_text),
         counter |-> counter + 1,
         ret     |-> [status      |-> "success",
                      cache_id    |-> cache_id,
                      total_chars |-> Len(result_text)]]

\* main.py:204
CacheMiss(cache, cache_id) == cache_id \notin DOMAIN cache

\* Mutant: the listing leaves out the first id.
AvailableCaches_Partial(cache) == DOMAIN cache \ {CacheId(0)}

\* main.py:207  list(response_cache.keys()), as a set
AvailableCaches(cache) == DOMAIN cache

\* Mutant: an offset equal to the length passes the validation.
OffsetBeyond_Strict(offset, total_length) == offset > total_length

\* main.py:214
OffsetBeyond(offset, total_length) == offset >= total_length

\* Mutant: the slice stops one character early.
SegmentAt_Short(content, offset) == PySlice(content, offset, offset + length - 1)

\* main.py:220
SegmentAt(content, offset) == PySlice(content, offset, offset + length)

\* Mutant: has_more is also true when the segment ends the text.
HasMore_AtEnd(offset, total_length) == offset + length <= total_length

\* main.py:221
HasMore(offset, total_length) == offset + length < total_length

\* main.py:222
NextOffset(offset, has_more) == IF has_more THEN Some(offset + length) ELSE None

\* main.py:190-234: the JSON object get_markdown_segment returns.
get_markdown_segment(cache, cache_id, offset) ==
    IF CacheMiss(cache, cache_id)
    THEN [error            |-> "Cache not found",
          cache_id         |-> cache_id,
          available_caches |-> AvailableCaches(cache)]
    ELSE
    LET content == cache[cache_id]
        total_length == Len(content)
    IN  IF OffsetBeyond(offset, total_length)
        THEN [error        |-> "Offset is beyond content length",
              offset       |-> offset,
              total_length |-> total_length]
        ELSE
        LET segment == SegmentAt(content, offset)
            has_more == HasMore(offset, total_length)
            next_offset == NextOffset(offset, has_more)
        IN  [status       |-> "success",
             cache_id     |-> cache_id,
             segment      |-> segment,
             offset       |-> offset,
             length       |-> Len(segment),
             total_length |-> total_length,
             has_more     |-> has_more,
             next_offset  |-> next_offset,
             progress     |-> <<Min(offset + length, total_length), total_length>>]

IsSuccess(res) == "status" \in DOMAIN res
IsNotFound(res) == "error" \in DOMAIN res /\ res.error = "Cache not found"
IsOutOfRange(res) ==
    "error" \in DOMAIN res /\ res.error = "Offset is beyond content length"

(***************************************************************************)
(* The conversion orchestrator, read_as_markdown.  The tool is a coroutine *)
(* on a single event loop: its statements run without interruption from    *)
(* one await to the next, and another invocation can run only while this   *)
(* one is suspended in `await llama_parser.aparse(...)`.                    *)
(***************************************************************************)
Reqs == 1..MaxReqs

\* main.py:105
chunk_size == 40

\* sep.join(strs)
RECURSIVE Join(_, _)
Join(strs, sep) ==
    IF Len(strs) = 0 THEN ""
    ELSE IF Len(strs) = 1 THEN strs[1]
    ELSE strs[1] \o sep \o Join(Tail(strs), sep)

\* A file under PROJECT_ROOT: whether it exists, whether PdfReader can open
\* it, and its page count.
File(name, exists, readable, pages) ==
    [name |-> name, exists |-> exists, readable |-> readable, pages |-> pages]

\* What the remote service makes of page p of a document.
PageMd(p) == "<page " \o ToString(p) \o ">"

\* What docling's export_to_markdown gives for the file at path.
LocalMd(path) == "docling(" \o path \o ")"

\* A remote job result for the pages first..last-1 of a document.  pages is
\* None when the object has no `pages` attribute, and a page's md is None
\* when the page object has no `md` attribute.
JobResult(path, first, last) ==
    [path  |-> path,
     pages |-> Some([k \in 1..(last - first) |-> [md |-> Some(PageMd(first + k - 1))]])]

Opaque(job) == [path |-> job.path, pages |-> None]

Garbled(job) ==
    [path  |-> job.path,
     pages |-> Some([k \in 1..Len(job.pages[1]) |-> [md |-> None]])]

\* "\n\n".join([page.md for page in pages]) raises AttributeError.
PagesRaise(pages) == \E k \in 1..Len(pages) : pages[k].md = None

\* "\n\n".join([page.md for page in pages])
JoinPages(pages) == Join([k \in 1..Len(pages) |-> pages[k].md[1]], "\n\n")

\* str(job_result)
StrOf(job) == "JobResult(" \o ToString(job.path) \o ")"

\* main.py:144-148: the markdown of one job result of a batch.
MarkdownOf(job_result) ==
    IF job_result.pages # None
    THEN JoinPages(job_result.pages[1])
    ELSE StrOf(job_result)

\* Mutant: chunks are joined with the page separator.
Combine_Separated(job_results) ==
    Join([idx \in 1..Len(job_results) |-> MarkdownOf(job_results[idx])], "\n\n")

\* main.py:143-154: results[idx] for idx in enumerate order, joined by "" in
\* ascending idx.
Combine(job_results) ==
    Join([idx \in 1..Len(job_results) |-> MarkdownOf(job_results[idx])], "")

\* The streams installed at process start.
OrigStdout == "sys.__stdout__"
OrigStderr == "sys.__stderr__"

\* main.py:115-116: a fresh io.StringIO()
StringIO(r, which) == "StringIO(" \o ToString(r) \o "," \o which \o ")"

\* tempfile.mkdtemp() in invocation r: a directory no one else has.
TempDir(r) == "/tmp/tmp" \o ToString(r)

NoFile == File("", FALSE, FALSE, 0)

\* An invocation that has not been made; once it has returned or raised,
\* its locals are gone and only pc, exc (what it raised) and ret (what it
\* returned) remain.
IdleReq ==
    [pc          |-> "idle",
     file        |-> NoFile,
     engine      |-> "",
     old_stdout  |-> "",
     old_stderr  |-> "",
     total_pages |-> None,
     chunks      |-> None,
     temp_dir    |-> None,
     awaited     |-> None,
     job_results |-> None,
     result_text |-> None,
     exc         |-> None,
     ret         |-> None,
     calls       |-> <<>>,    \* ghost: the collaborators called, in order
     failures    |-> <<>>]    \* ghost: what the remote path raised

OrchInit ==
    /\ req = [r \in Reqs |-> IdleReq]
    /\ running = 0
    /\ stdout = OrigStdout
    /\ stderr = OrigStderr
    /\ scratch = {}

\* The invocation r is at pc and the event loop is running it.
At(r, pc) == running = r /\ req[r].pc = pc

Logged(r, call) == Append(req[r].calls, call)

\* The invocation has ended by raising exc.
Raised(exc) == [IdleReq EXCEPT !.pc = "raised", !.exc = exc]

\* The invocation has ended by returning ret.
Returned(ret) == [IdleReq EXCEPT !.pc = "done", !.ret = Some(ret)]

\* main.py:94-120: the r-th call, up to the engine test.  A missing file
\* raises FileNotFoundError before the streams are touched.
Invoke(r, file, engine) ==
    /\ running = 0
    /\ req[r].pc = "idle"
    /\ \A q \in 1..(r - 1) : req[q].pc # "idle"
    /\ IF ~file.exists
       THEN /\ req' = [req EXCEPT ![r] = Raised(Some("FileNotFoundError"))]
            /\ UNCHANGED <<running, stdout, stderr>>
       ELSE /\ req' = [req EXCEPT ![r] =
                         [@ EXCEPT !.pc = IF engine = "docling"
                                          THEN "docling" ELSE "read_pages",
                                   !.file = file, !.engine = engine,
                                   !.old_stdout = stdout, !.old_stderr = stderr]]
            /\ stdout' = StringIO(r, "out")
            /\ stderr' = StringIO(r, "err")
            /\ running' = r
    /\ op' = "read_as_markdown"
    /\ UNCHANGED <<download, cacheVars, segCall, chain, splitCall, scratch>>

\* Mutant: the local converter is run twice.
Docling_Twice(r, path, ok, next_pc) ==
    req' = [req EXCEPT ![r] =
              [@ EXCEPT !.pc = next_pc,
                        !.calls = Append(Logged(r, [fn |-> "docling.convert", arg |-> path]),
                                         [fn |-> "docling.convert", arg |-> path]),
                        !.result_text = IF ok THEN Some(LocalMd(path)) ELSE @,
                        !.exc = IF ok THEN None ELSE Some("ConversionError")]]

\* docling_parser.convert(path).document.export_to_markdown(): the text, or
\* a conversion error.
Docling(r, path, ok, next_pc) ==
    req' = [req EXCEPT ![r] =
              [@ EXCEPT !.pc = next_pc,
                        !.calls = Logged(r, [fn |-> "docling.convert", arg |-> path]),
                        !.result_text = IF ok THEN Some(LocalMd(path)) ELSE @,
                        !.exc = IF ok THEN None ELSE Some("ConversionError")]]

\* Mutant: the fallback converts the first chunk when there is one.
FallbackSource_Chunk(r) ==
    IF req[r].chunks # None THEN req[r].chunks[1][1][3][2] ELSE req[r].file.name

\* main.py:165  str(source)
FallbackSource(r) == req[r].file.name

\* main.py:120-123: engine == "docling".
DoclingDirect(r, ok) ==
    /\ At(r, "docling")
    /\ Docling(r, req[r].file.name, ok, "restore")
    /\ op' = "read_as_markdown"
    /\ UNCHANGED <<download, cacheVars, segCall, chain, splitCall, running, stdout, stderr, scratch>>

\* Mutant: a document of exactly chunk_size pages is chunked too.
NeedsChunking_Inclusive(total_pages) == total_pages >= chunk_size

\* main.py:132
NeedsChunking(total_pages) == total_pages > chunk_size

\* main.py:126-132: PdfReader(str(source)), len(reader.pages) and the test
\* total_pages > chunk_size.
ReadPages(r) ==
    /\ At(r, "read_pages")
    /\ LET file == req[r].file
       IN  req' = [req EXCEPT ![r] =
                     IF ~file.readable
                     THEN [@ EXCEPT !.pc = "fallback", !.exc = Some("PdfReadError"),
                                    !.failures = Append(@, "PdfReadError")]
                     ELSE [@ EXCEPT !.pc = IF NeedsChunking(file.pages)
                                           THEN "split" ELSE "submit_direct",
                                    !.total_pages = Some(file.pages)]]
    /\ op' = "read_as_markdown"
    /\ UNCHANGED <<download, cacheVars, segCall, chain, splitCall, running, stdout, stderr, scratch>>

\* main.py:133-134: chunks, temp_dir = split_pdf_into_chunks(source, chunk_size).
\* When the call raises, temp_dir is never bound.
Split(r, io) ==
    /\ At(r, "split")
    /\ LET file == req[r].file
           res == split_pdf_into_chunks(Pdf(file.name, file.readable, file.pages),
                                        chunk_size, TempDir(r), io)
           call == [fn |-> "split_pdf_into_chunks", arg |-> <<file.name, chunk_size>>]
       IN  /\ req' = [req EXCEPT ![r] =
                        IF res.outcome = "returned"
                        THEN [@ EXCEPT !.pc = "submit_batch",
                                       !.calls = Logged(r, call),
                                       !.chunks = Some(res.chunks),
                                       !.temp_dir = Some(res.temp_dir)]
                        ELSE [@ EXCEPT !.pc = "fallback",
                                       !.calls = Logged(r, call),
                                       !.exc = Some(res.error),
                                       !.failures = Append(@, res.error)]]
           /\ scratch' = IF res.created THEN scratch \cup {TempDir(r)} ELSE scratch
    /\ op' = "read_as_markdown"
    /\ UNCHANGED <<download, cacheVars, segCall, chain, splitCall, running, stdout, stderr>>

\* What llama_parser.aparse(str(source)) hands back, None when it raises.
DirectReply(file, how) ==
    LET job == JobResult(file.name, 0, file.pages)
    IN  CASE how = "raise"   -> None
          [] how = "ok"      -> Some(job)
          [] how = "opaque"  -> Some(Opaque(job))
          [] how = "garbled" -> Some(Garbled(job))

\* What llama_parser.aparse(chunk_paths) hands back, None when it raises:
\* one result per path in the order submitted ("ok"), the same with the first
\* result of an unknown shape ("opaque") or with pages that carry no md
\* ("garbled"), the list without its last result ("short"), or the list with
\* its first two results exchanged ("swapped").
BatchReply(chunks, how) ==
    LET jobs == [k \in 1..Len(chunks) |-> JobResult(chunks[k][3], chunks[k][1], chunks[k][2])]
        n == Len(jobs)
    IN  CASE how = "raise"   -> None
          [] how = "ok"      -> Some(jobs)
          [] how = "opaque"  -> Some([jobs EXCEPT ![1] = Opaque(@)])
          [] how = "garbled" -> Some([jobs EXCEPT ![1] = Garbled(@)])
          [] how = "short"   -> Some(SubSeq(jobs, 1, n - 1))
          [] how = "swapped" -> Some([jobs EXCEPT ![1] = jobs[2], ![2] = jobs[1]])

DirectReplies == {"raise", "ok", "opaque", "garbled"}
BatchReplies == {"raise", "ok", "opaque", "garbled"}

\* Replies in which the service does not keep to one result per path, in
\* the order submitted.
BatchFaults == {"short", "swapped"}

\* main.py:137-140: the chunk paths, in chunk order, go to aparse in one call
\* and the coroutine is suspended.
SubmitBatch(r) ==
    /\ At(r, "submit_batch")
    /\ LET chunks == req[r].chunks[1]
           chunk_paths == [k \in 1..Len(chunks) |-> chunks[k][3]]
       IN  req' = [req EXCEPT ![r] =
                     [@ EXCEPT !.pc = "await_batch",
                               !.awaited = Some(chunk_paths),
                               !.calls = Logged(r, [fn |-> "aparse", arg |-> chunk_paths])]]
    /\ running' = 0
    /\ op' = "read_as_markdown"
    /\ UNCHANGED <<download, cacheVars, segCall, chain, splitCall, stdout, stderr, scratch>>

\* main.py:140: the await ends, with the job results or with an exception.
BatchResume(r, how) ==
    /\ running = 0
    /\ req[r].pc = "await_batch"
    /\ LET reply == BatchReply(req[r].chunks[1], how)
       IN  req' = [req EXCEPT ![r] =
                     IF reply = None
                     THEN [@ EXCEPT !.pc = "cleanup", !.awaited = None,
                                    !.exc = Some("RemoteError"),
                                    !.failures = Append(@, "RemoteError")]
                     ELSE [@ EXCEPT !.pc = "extract", !.awaited = None,
                                    !.job_results = reply]]
    /\ running' = r
    /\ op' = "read_as_markdown"
    /\ UNCHANGED <<download, cacheVars, segCall, chain, splitCall, stdout, stderr, scratch>>

\* main.py:143-154: the markdown of every job result, combined.
Extract(r) ==
    /\ At(r, "extract")
    /\ LET job_results == req[r].job_results[1]
           raises == \E idx \in 1..Len(job_results) :
                        /\ job_results[idx].pages # None
                        /\ PagesRaise(job_results[idx].pages[1])
       IN  req' = [req EXCEPT ![r] =
                     IF raises
                     THEN [@ EXCEPT !.pc = "cleanup", !.exc = Some("AttributeError"),
                                    !.failures = Append(@, "AttributeError")]
                     ELSE [@ EXCEPT !.pc = "cleanup",
                                    !.result_text = Some(Combine(job_results))]]
    /\ op' = "read_as_markdown"
    /\ UNCHANGED <<download, cacheVars, segCall, chain, splitCall, running, stdout, stderr, scratch>>

\* main.py:155-158: the finally of the chunking branch.
Cleanup(r) ==
    /\ At(r, "cleanup")
    /\ scratch' = scratch \ {req[r].temp_dir[1]}
    /\ req' = [req EXCEPT ![r] =
                 [@ EXCEPT !.pc = IF req[r].exc # None THEN "fallback" ELSE "restore"]]
    /\ op' = "read_as_markdown"
    /\ UNCHANGED <<download, cacheVars, segCall, chain, splitCall, running, stdout, stderr>>

\* main.py:161: the whole file goes to aparse and the coroutine is suspended.
SubmitDirect(r) ==
    /\ At(r, "submit_direct")
    /\ req' = [req EXCEPT ![r] =
                 [@ EXCEPT !.pc = "await_direct",
                           !.awaited = Some(req[r].file.name),
                           !.calls = Logged(r, [fn |-> "aparse", arg |-> req[r].file.name])]]
    /\ running' = 0
    /\ op' = "read_as_markdown"
    /\ UNCHANGED <<download, cacheVars, segCall, chain, splitCall, stdout, stderr, scratch>>

\* main.py:161-162: the await ends and the pages' markdown is joined.
DirectResume(r, how) ==
    /\ running = 0
    /\ req[r].pc = "await_direct"
    /\ LET reply == DirectReply(req[r].file, how)
       IN  req' = [req EXCEPT ![r] =
                     IF reply = None
                     THEN [@ EXCEPT !.pc = "fallback", !.awaited = None,
                                    !.exc = Some("RemoteError"),
                                    !.failures = Append(@, "RemoteError")]
                     ELSE IF reply[1].pages = None \/ PagesRaise(reply[1].pages[1])
                     THEN [@ EXCEPT !.pc = "fallback", !.awaited = None,
                                    !.exc = Some("AttributeError"),
                                    !.failures = Append(@, "AttributeError")]
                     ELSE [@ EXCEPT !.pc = "restore", !.awaited = None,
                                    !.result_text = Some(JoinPages(reply[1].pages[1]))]]
    /\ running' = r
    /\ op' = "read_as_markdown"
    /\ UNCHANGED <<download, cacheVars, segCall, chain, splitCall, stdout, stderr, scratch>>

\* main.py:163-166: except Exception: docling on the source file.
Fallback(r, ok) ==
    /\ At(r, "fallback")
    /\ Docling(r, FallbackSource(r), ok, "restore")
    /\ op' = "read_as_markdown"
    /\ UNCHANGED <<download, cacheVars, segCall, chain, splitCall, running, stdout, stderr, scratch>>

\* Mutant: a pending exception is dropped and an empty text is cached.
Restore_Swallow(r) ==
    /\ At(r, "restore")
    /\ stdout' = req[r].old_stdout
    /\ stderr' = req[r].old_stderr
    /\ req' = [req EXCEPT ![r] =
                 [@ EXCEPT !.pc = "store", !.exc = None,
                           !.result_text = IF @ = None THEN Some("") ELSE @]]
    /\ op' = "read_as_markdown"
    /\ UNCHANGED <<download, cacheVars, segCall, chain, splitCall, running, scratch>>

\* main.py:167-170: the outer finally; a pending exception then leaves the
\* coroutine.
Restore(r) ==
    /\ At(r, "restore")
    /\ stdout' = req[r].old_stdout
    /\ stderr' = req[r].old_stderr
    /\ IF req[r].exc # None
       THEN /\ req' = [req EXCEPT ![r] = Raised(req[r].exc)]
            /\ running' = 0
       ELSE /\ req' = [req EXCEPT ![r] = [@ EXCEPT !.pc = "store"]]
            /\ UNCHANGED running
    /\ op' = "read_as_markdown"
    /\ UNCHANGED <<download, cacheVars, segCall, chain, splitCall, scratch>>

\* main.py:172-185: the text is cached and the reference returned.
Store(r) ==
    /\ At(r, "store")
    /\ LET st == StoreInCache(response_cache, cache_counter, req[r].result_text[1])
       IN  /\ response_cache' = st.cache
           /\ cache_counter' = st.counter
           /\ issued' = Append(issued, [cache_id |-> st.ret.cache_id,
                                        text     |-> req[r].result_text[1]])
           /\ req' = [req EXCEPT ![r] = Returned(st.ret)]
    /\ running' = 0
    /\ op' = "read_as_markdown"
    /\ UNCHANGED <<download, segCall, chain, splitCall, stdout, stderr, scratch>>

(***************************************************************************)
(* A caller that pages a cached text: it starts at offset 0 and passes     *)
(* each next_offset back until has_more is false.  chain records what such *)
(* a caller has received so far.                                           *)
(***************************************************************************)
NoChain == [state |-> "none"]

\* The chain after a call (cache_id, offset) that returned res.
ChainAfter(ch, cache_id, offset, res) ==
    LET starts == offset = 0
        follows == /\ ch.state = "open"
                   /\ ch.cache_id = cache_id
                   /\ ch.next = Some(offset)
    IN  IF ~(starts \/ follows) THEN NoChain
        ELSE
        LET before == IF starts THEN "" ELSE ch.acc
            count  == IF starts THEN 0 ELSE ch.fetched
            worst  == IF starts THEN 0 ELSE ch.longest
        IN  IF IsSuccess(res)
            THEN [state    |-> IF res.has_more THEN "open" ELSE "exhausted",
                  cache_id |-> cache_id,
                  acc      |-> before \o res.segment,
                  next     |-> res.next_offset,
                  fetched  |-> count + 1,
                  longest  |-> Max(worst, Len(res.segment))]
            ELSE [state    |-> IF IsNotFound(res) THEN "unknown" ELSE "failed",
                  cache_id |-> cache_id,
                  acc      |-> before,
                  next     |-> None,
                  fetched  |-> count,
                  longest  |-> worst]

\* The tool call get_markdown_segment(cache_id, offset).
GetSegment(cache_id, offset) ==
    LET res == get_markdown_segment(response_cache, cache_id, offset)
    IN  /\ running = 0
        /\ segCall' = [cache_id |-> cache_id, offset |-> offset, result |-> res]
        /\ chain' = ChainAfter(chain, cache_id, offset, res)
        /\ op' = "get_markdown_segment"
        /\ UNCHANGED <<download, cacheVars, splitCall, orchVars>>

(***************************************************************************)
(* SpecCache: texts of up to MaxSegs segments are stored and paged.        *)
(***************************************************************************)
\* s repeated n times.
RECURSIVE Repeat(_, _)
Repeat(s, n) ==
    IF n = 0 THEN ""
    ELSE IF n % 2 = 1 THEN Repeat(s, n - 1) \o s
    ELSE LET half == Repeat(s, n \div 2) IN half \o half

\* A converted text of n characters.
Text(n) == SubSeq(Repeat("# Item 7.\n", n \div 10 + 1), 1, n)

\* Lengths: empty, one character, one segment, and one below, at and one
\* above MaxSegs segments.
ContentLengths ==
    {0, 1, length} \cup {MaxSegs * length + d : d \in {-1, 0, 1}}

\* Requested offsets: negative, one, and around the first and the last
\* segment boundary.
Offsets ==
    {-(length + 5), -1, 1}
        \cup {k * length + d : k \in {1, MaxSegs}, d \in {-1, 0, 1}}

\* Requested ids: stored or not yet stored, and one of another shape.
RequestedIds == {CacheId(n) : n \in 0..MaxCached} \cup {<<"pdf_", 0>>, <<"", 0>>}

NoCall == [cache_id |-> <<"", 0>>, offset |-> 0, result |-> [none |-> TRUE]]

NoSplit == [called |-> FALSE]

NoDownload == [called |-> FALSE]

CacheInit ==
    /\ response_cache = <<>>
    /\ cache_counter = 0
    /\ issued = <<>>
    /\ segCall = NoCall
    /\ chain = NoChain
    /\ op = "none"
    /\ splitCall = NoSplit
    /\ OrchInit
    /\ download = NoDownload

\* read_as_markdown, seen from the cache: a conversion ended with result_text.
StoreContent(result_text) ==
    /\ cache_counter < MaxCached
    /\ LET st == StoreInCache(response_cache, cache_counter, result_text)
       IN  /\ response_cache' = st.cache
           /\ cache_counter' = st.counter
           /\ issued' = Append(issued, [cache_id |-> st.ret.cache_id,
                                        text     |-> result_text])
    /\ op' = "read_as_markdown"
    /\ UNCHANGED <<download, segCall, chain, splitCall, orchVars>>

StoreAny == \E n \in ContentLengths : StoreContent(Text(n))

\* A caller starts paging some id.
FetchFirst == \E id \in RequestedIds : GetSegment(id, 0)

\* A caller passes the last next_offset back.
FetchNext ==
    /\ chain.state = "open"
    /\ GetSegment(chain.cache_id, chain.next[1])

\* A caller asks a stored id for any other offset.
FetchAt ==
    \E id \in DOMAIN response_cache, offset \in Offsets : GetSegment(id, offset)

CacheNext == StoreAny \/ FetchFirst \/ FetchNext \/ FetchAt

SpecCache == CacheInit /\ [][CacheNext]_vars

(***************************************************************************)
(* SpecChunk: split_pdf_into_chunks is called once on a PDF of 0..MaxPages *)
(* pages, or on a file that is no PDF, with a requested chunk size in      *)
(* 1..MaxPerChunk.                                                         *)
(***************************************************************************)
SplitInputs ==
    [pdf : {Pdf("a.pdf", TRUE, pages) : pages \in 0..MaxPages},
     pages_per_chunk : 1..MaxPerChunk,
     io : {"ok", "mkdtemp", "write"}]
        \cup [pdf : {Pdf("bad.pdf", FALSE, 0)},
              pages_per_chunk : 1..MaxPerChunk,
              io : {"ok"}]

ChunkInit ==
    /\ response_cache = <<>>
    /\ cache_counter = 0
    /\ issued = <<>>
    /\ segCall = NoCall
    /\ chain = NoChain
    /\ op = "none"
    /\ OrchInit
    /\ download = NoDownload
    /\ \E in \in SplitInputs :
          splitCall = [called          |-> FALSE,
                       pdf             |-> in.pdf,
                       pages_per_chunk |-> in.pages_per_chunk,
                       io              |-> in.io]

SplitCall ==
    /\ ~splitCall.called
    /\ splitCall' =
          [called          |-> TRUE,
           pdf             |-> splitCall.pdf,
           pages_per_chunk |-> splitCall.pages_per_chunk,
           io              |-> splitCall.io,
           result          |-> split_pdf_into_chunks(splitCall.pdf,
                                   splitCall.pages_per_chunk, "tmp0", splitCall.io)]
    /\ op' = "split_pdf_into_chunks"
    /\ UNCHANGED <<download, cacheVars, segCall, chain, orchVars>>

ChunkNext == SplitCall

SpecChunk == ChunkInit /\ [][ChunkNext]_vars

(***************************************************************************)
(* Spec: MaxReqs invocations of read_as_markdown, overlapping at their     *)
(* awaits, and calls of get_markdown_segment between them.                 *)
(***************************************************************************)
\* The files asked for: one that is missing, one that is no PDF, and PDFs of
\* exactly chunk_size pages and of one page more.
Files ==
    {File("missing.pdf", FALSE, FALSE, 0), File("bad.pdf", TRUE, FALSE, 0)}
        \cup {File("pdf/" \o ToString(n) \o "p.pdf", TRUE, TRUE, n) :
                n \in {chunk_size, chunk_size + 1}}

Engines == {"llama-cloud", "docling"}

Init ==
    /\ response_cache = <<>>
    /\ cache_counter = 0
    /\ issued = <<>>
    /\ segCall = NoCall
    /\ chain = NoChain
    /\ op = "none"
    /\ splitCall = NoSplit
    /\ OrchInit
    /\ download = NoDownload

\* A caller asks for a segment of some id while no invocation is running.
Fetch == \E id \in {CacheId(n) : n \in 0..MaxReqs} : GetSegment(id, 0)

Next ==
    \/ \E r \in Reqs, file \in Files, engine \in Engines : Invoke(r, file, engine)
    \/ \E r \in Reqs, ok \in BOOLEAN : DoclingDirect(r, ok)
    \/ \E r \in Reqs : ReadPages(r)
    \/ \E r \in Reqs, io \in {"ok", "mkdtemp", "write"} : Split(r, io)
    \/ \E r \in Reqs : SubmitBatch(r)
    \/ \E r \in Reqs, how \in BatchReplies : BatchResume(r, how)
    \/ \E r \in Reqs : Extract(r)
    \/ \E r \in Reqs : Cleanup(r)
    \/ \E r \in Reqs : SubmitDirect(r)
    \/ \E r \in Reqs, how \in DirectReplies : DirectResume(r, how)
    \/ \E r \in Reqs, ok \in BOOLEAN : Fallback(r, ok)
    \/ \E r \in Reqs : Restore(r)
    \/ \E r \in Reqs : Store(r)
    \/ Fetch

Spec == Init /\ [][Next]_vars

(***************************************************************************)
(* The filing download, download_sec_filing.  The tool is an ordinary      *)
(* function: one call runs from start to end.  A call is described by its  *)
(* arguments, by what the SEC servers answer (sec) and by which of the     *)
(* rows with equal dates the sort puts first.                              *)
(***************************************************************************)
\* The character at position i of s.
Char(s, i) == SubSeq(s, i, i)

\* s.replace(old, new) for a one-character old.
RECURSIVE Replace(_, _, _)
Replace(s, old, new) ==
    IF Len(s) = 0 THEN ""
    ELSE (IF Char(s, 1) = old THEN new ELSE Char(s, 1))
             \o Replace(SubSeq(s, 2, Len(s)), old, new)

\* s.startswith(prefix)
StartsWith(s, prefix) ==
    Len(s) >= Len(prefix) /\ SubSeq(s, 1, Len(prefix)) = prefix

\* s.lstrip("0")
RECURSIVE LStripZeros(_)
LStripZeros(s) ==
    IF Len(s) > 0 /\ Char(s, 1) = "0" THEN LStripZeros(SubSeq(s, 2, Len(s))) ELSE s

IsDigit(c) == \E d \in 0..9 : ToString(d) = c

DigitVal(c) == CHOOSE d \in 0..9 : ToString(d) = c

IsNumeric(s) == Len(s) > 0 /\ \A i \in 1..Len(s) : IsDigit(Char(s, i))

\* int(s) for a string of decimal digits.
RECURSIVE ToInt(_)
ToInt(s) ==
    IF Len(s) = 0 THEN 0
    ELSE 10 * ToInt(SubSeq(s, 1, Len(s) - 1)) + DigitVal(Char(s, Len(s)))

\* Mutant: the accepted range starts a year early.
YearInRange_From2020(year) == 2020 <= year /\ year <= 2025

\* main.py:296, for an integer year
YearInRange(year) == 2021 <= year /\ year <= 2025

\* main.py:300
Normalized(output_dir_path) == Replace(output_dir_path, "\\", "/")

\* main.py:301
UnderHtml(normalized) == normalized = "html" \/ StartsWith(normalized, "html/")

\* main.py:305-308: int(str(cik).lstrip("0") or "0"), None when it raises
\* ValueError.  cik stands for str(cik).
CikInt(cik) ==
    LET stripped == LStripZeros(cik)
        digits == IF stripped = "" THEN "0" ELSE stripped
    IN  IF IsNumeric(digits) THEN Some(ToInt(digits)) ELSE None

\* main.py:310  f"{cik_int:010d}"
CikPadded(cik_int) ==
    LET digits == ToString(cik_int)
    IN  IF Len(digits) >= 10 THEN digits ELSE Repeat("0", 10 - Len(digits)) \o digits

\* main.py:313
SubmissionsUrl(cik_padded) ==
    "https://data.sec.gov/submissions/CIK" \o cik_padded \o ".json"

\* main.py:338: reportDate, with filingDate where reportDate is null.  An
\* empty string is not null and is left as it is.
FillDate(rec) == IF rec.reportDate = None THEN rec.filingDate ELSE rec.reportDate

\* main.py:341: pd.to_datetime(..., errors='coerce') of one value: the date
\* of a YYYY-MM-DD string, None (NaT) for anything else.
ToDatetime(value) ==
    IF value = None THEN None
    ELSE
    LET s == value[1]
        shaped == /\ Len(s) = 10
                  /\ Char(s, 5) = "-"
                  /\ Char(s, 8) = "-"
                  /\ IsNumeric(SubSeq(s, 1, 4))
                  /\ IsNumeric(SubSeq(s, 6, 7))
                  /\ IsNumeric(SubSeq(s, 9, 10))
    IN  IF ~shaped THEN None
        ELSE
        LET y == ToInt(SubSeq(s, 1, 4))
            m == ToInt(SubSeq(s, 6, 7))
            d == ToInt(SubSeq(s, 9, 10))
        IN  IF m \in 1..12 /\ d \in 1..31
            THEN Some([year |-> y, month |-> m, day |-> d])
            ELSE None

\* The column df['date'] at row k.
DateOf(recent, k) == ToDatetime(FillDate(recent[k]))

\* The order of two dates is the order of their keys.
DateKey(dt) == dt.year * 10000 + dt.month * 100 + dt.day

\* main.py:344: the rows whose form is the filing type.
FormRows(recent, filing_type) ==
    {k \in 1..Len(recent) : recent[k].form = filing_type}

\* main.py:350-351: of these, the rows whose date falls in the year.
YearRows(recent, rows, year) ==
    {k \in rows : DateOf(recent, k) # None /\ DateOf(recent, k)[1].year = year}

\* main.py:357: the rows that sort_values('date', ascending=False) may put
\* first.  The sort is pandas' default, which does not keep rows with equal
\* dates in their original order: any row with the greatest date may come
\* first.
SortFirst(recent, rows) ==
    {k \in rows :
        \A j \in rows : DateKey(DateOf(recent, k)[1]) >= DateKey(DateOf(recent, j)[1])}

\* main.py:361
AccessionClean(accession_raw) == Replace(accession_raw, "-", "")

\* main.py:364-367
ArchivesUrl(cik_int, accession_clean, primary_doc) ==
    "https://www.sec.gov/Archives/edgar/data/" \o ToString(cik_int) \o "/"
        \o accession_clean \o "/" \o primary_doc

\* main.py:371  os.path.join(output_dir_path, primary_doc)
PathJoin(dir, name) ==
    IF Len(dir) > 0 /\ Char(dir, Len(dir)) # "/" THEN dir \o "/" \o name ELSE dir \o name

\* main.py:347, 354
NoFilingFound(cik_int, year, filing_type) ==
    [error       |-> "No filing found",
     cik         |-> cik_int,
     year        |-> year,
     filing_type |-> filing_type]

\* What a call returns and does: the URLs requested in order, the directories
\* made, the files written and the row selected.
Outcome(result, requests, made_dirs, written, selected) ==
    [result    |-> result,
     requests  |-> requests,
     made_dirs |-> made_dirs,
     written   |-> written,
     selected  |-> selected]

\* main.py:275-391: download_sec_filing(cik, year, filing_type,
\* output_dir_path).  sec.index is the `recent` table of the submissions
\* JSON, None when the request fails; sec.doc says whether the document
\* request succeeds; first is the row the sort puts first.
download_sec_filing(cik, year, filing_type, output_dir_path, sec, first) ==
    IF ~YearInRange(year)
    THEN Outcome([error |-> "year must be between 2021 and 2025."], <<>>, {}, {}, None)
    ELSE IF ~UnderHtml(Normalized(output_dir_path))
    THEN Outcome([error |-> "output_dir_path must be \"html\" or \"html/...\" format."],
                 <<>>, {}, {}, None)
    ELSE IF CikInt(cik) = None
    THEN Outcome([error |-> "CIK must be a numeric string or integer."], <<>>, {}, {}, None)
    ELSE
    LET cik_int == CikInt(cik)[1]
        submissions_url == SubmissionsUrl(CikPadded(cik_int))
    IN  IF sec.index = None
        THEN Outcome([error |-> "Failed to fetch data from SEC server."],
                     <<submissions_url>>, {}, {}, None)
        ELSE
        LET recent == sec.index[1]
            by_form == FormRows(recent, filing_type)
            by_year == YearRows(recent, by_form, year)
        IN  IF by_form = {} \/ by_year = {}
            THEN Outcome(NoFilingFound(cik_int, year, filing_type),
                         <<submissions_url>>, {}, {}, None)
            ELSE
            LET filing == recent[first]
                archives_url == ArchivesUrl(cik_int,
                                    AccessionClean(filing.accessionNumber),
                                    filing.primaryDocument)
                local_path == PathJoin(output_dir_path, filing.primaryDocument)
            IN  IF sec.doc = "fail"
                THEN Outcome([error |-> "Failed to download file."],
                             <<submissions_url, archives_url>>,
                             {output_dir_path}, {}, Some(first))
                ELSE Outcome([primaryDocument |-> local_path],
                             <<submissions_url, archives_url>>,
                             {output_dir_path}, {local_path}, Some(first))

\* The rows the sort may put first in the call described by d; 0 stands for
\* a call that does not come to sorting.
FirstChoices(d) ==
    IF d.sec.index = None THEN {0}
    ELSE LET recent == d.sec.index[1]
             rows == YearRows(recent, FormRows(recent, d.filing_type), d.year)
         IN  IF rows = {} THEN {0} ELSE SortFirst(recent, rows)

(***************************************************************************)
(* SpecFiling: download_sec_filing is called once.  Either the arguments   *)
(* range over valid and invalid years, directories and CIKs against a      *)
(* fixed filing index, or valid arguments meet every filing index of up    *)
(* to MaxFilings rows.                                                     *)
(***************************************************************************)
\* main.py:278
FilingTypes == {"8-K", "10-Q", "10-K", "DEF 14A"}

\* str(cik): padded, plain, zero, and not a number.
Ciks == {"0000320193", "320193", "0", "AAPL"}

\* Years below, at the ends of, inside and above the accepted range.
Years == {2019, 2020, 2021, 2023, 2025, 2026}

\* Output directories: the html folder and folders below it, with either
\* separator; paths that begin with html/ and leave it through ".."; an
\* absolute path, another root, and a name that only begins like html.
OutputDirs ==
    {"html", "html/amzn_2024_8_k", "html\\amzn", "html/a/..",
     "html/../etc", "html/a/../../etc",
     "/etc/passwd", "pdf/out", "htmlx", "../html"}

\* Row k of a filing index.
Filing(k, form, reportDate, filingDate) ==
    [form            |-> form,
     reportDate      |-> reportDate,
     filingDate      |-> filingDate,
     accessionNumber |-> "0000320193-23-00000" \o ToString(k),
     primaryDocument |-> "doc" \o ToString(k) \o ".htm"]

\* A filing index of two annual reports and a quarterly report of 2023.
ExampleIndex ==
    <<Filing(1, "10-K", Some("2023-03-01"), Some("2023-03-15")),
      Filing(2, "10-K", Some("2023-11-01"), Some("2023-11-15")),
      Filing(3, "10-Q", Some("2023-06-01"), Some("2023-06-15"))>>

\* What the SEC servers do: the index request fails, or the index comes and
\* the document request succeeds or fails.
Sec(index, doc) == [index |-> index, doc |-> doc]

\* The kinds of row: a form, and a reportDate that is null, empty or a
\* date, with a filingDate in the same or in the next year.
RowKinds ==
    [form : {"10-K", "10-Q"},
     dates : {<<None, Some("2023-11-01")>>,
              <<Some(""), Some("2023-11-01")>>,
              <<Some("2023-03-01"), Some("2023-05-01")>>,
              <<Some("2023-11-01"), Some("2024-01-15")>>,
              <<Some("2022-12-31"), Some("2023-02-15")>>}]

\* Every filing index of n rows.
IndexesOf(n) ==
    {[k \in 1..n |-> Filing(k, kinds[k].form, kinds[k].dates[1], kinds[k].dates[2])] :
        kinds \in [1..n -> RowKinds]}

DownloadInputs ==
    [cik : Ciks, year : Years, filing_type : FilingTypes,
     output_dir_path : OutputDirs,
     sec : {Sec(None, "ok"), Sec(Some(ExampleIndex), "ok"), Sec(Some(ExampleIndex), "fail")}]
        \cup [cik : {"320193"}, year : {2022, 2023}, filing_type : {"10-K"},
              output_dir_path : {"html/aapl_10_k"},
              sec : {Sec(Some(index), "ok") :
                        index \in UNION {IndexesOf(n) : n \in 0..MaxFilings}}]

FilingInit ==
    /\ response_cache = <<>>
    /\ cache_counter = 0
    /\ issued = <<>>
    /\ segCall = NoCall
    /\ chain = NoChain
    /\ op = "none"
    /\ splitCall = NoSplit
    /\ OrchInit
    /\ \E in \in DownloadInputs :
          download = [called          |-> FALSE,
                      cik             |-> in.cik,
                      year            |-> in.year,
                      filing_type     |-> in.filing_type,
                      output_dir_path |-> in.output_dir_path,
                      sec             |-> in.sec]

\* The tool call download_sec_filing(cik, year, filing_type, output_dir_path).
DownloadCall ==
    /\ ~download.called
    /\ \E first \in FirstChoices(download) :
          download' =
              [called          |-> TRUE,
               cik             |-> download.cik,
               year            |-> download.year,
               filing_type     |-> download.filing_type,
               output_dir_path |-> download.output_dir_path,
               sec             |-> download.sec,
               outcome         |-> download_sec_filing(download.cik, download.year,
                                       download.filing_type, download.output_dir_path,
                                       download.sec, first)]
    /\ op' = "download_sec_filing"
    /\ UNCHANGED <<cacheVars, segCall, chain, splitCall, orchVars>>

FilingNext == DownloadCall

SpecFiling == FilingInit /\ [][FilingNext]_vars

(***************************************************************************)
(* Claims about the segment cache, checked under SpecCache.                *)
(***************************************************************************)
\* The step is a call of get_markdown_segment that names a stored id.
CallOfStored ==
    /\ op' = "get_markdown_segment"
    /\ segCall'.cache_id \in DOMAIN response_cache

\* The last call found its id in the cache.
CallHit == IsSuccess(segCall.result) \/ IsOutOfRange(segCall.result)

\* A caller is paging, or has paged, a stored id from offset 0.
Paging == chain.state \in {"open", "exhausted", "failed"}

IsPrefix(s, t) == Len(s) <= Len(t) /\ s = SubSeq(t, 1, Len(s))

\* C1 (as stated): paging a stored text from offset 0 along next_offset
\* returns only success results, and at exhaustion the concatenated segments
\* are the text, each segment at most 100000 long.
C1_RoundTripAllSuccess ==
    Paging =>
        /\ chain.state # "failed"
        /\ chain.longest <= length
        /\ chain.state = "exhausted" => chain.acc = response_cache[chain.cache_id]

\* C1 (amended): paging a stored text C from offset 0 along next_offset
\* yields segments of at most 100000 characters whose concatenation is at
\* every point the prefix of C that ends at the next offset (no gap, no
\* overlap) and is C when has_more is false; every result is a success when
\* C is not empty, and for the empty C the one call at offset 0 returns the
\* out-of-range error with no segment.
C1_RoundTrip ==
    Paging =>
        LET C == response_cache[chain.cache_id]
        IN  /\ chain.longest <= length
            /\ IsPrefix(chain.acc, C)
            /\ chain.state = "open" => chain.next = Some(Len(chain.acc))
            /\ chain.state = "exhausted" => chain.acc = C
            /\ chain.state = "failed" =>
                  /\ C = ""
                  /\ chain.fetched = 0
                  /\ IsOutOfRange(segCall.result)
                  /\ "segment" \notin DOMAIN segCall.result
            /\ C # "" => chain.state # "failed"

\* C1 witness: a text one character longer than MaxSegs segments has been
\* paged to the end in MaxSegs + 1 calls.
C1_Witness ==
    /\ Paging
    /\ chain.state = "exhausted"
    /\ chain.fetched = MaxSegs + 1
    /\ Len(chain.acc) = MaxSegs * length + 1

\* C2: for a stored id and an offset below the text's length the call
\* succeeds with has_more = (offset + 100000 < total_length) and next_offset =
\* offset + 100000 when has_more, none otherwise; from a position offset >= 0
\* the segment is the characters offset .. offset + 100000 - 1 of the text,
\* cut at its end.
C2_SegmentContract ==
    [][(CallOfStored /\ segCall'.offset < Len(response_cache[segCall'.cache_id]))
        => LET content == response_cache[segCall'.cache_id]
               total == Len(content)
               offset == segCall'.offset
               res == segCall'.result
           IN  /\ IsSuccess(res)
               /\ res.has_more = (offset + length < total)
               /\ res.next_offset =
                      IF res.has_more THEN Some(offset + length) ELSE None
               /\ res.total_length = total
               /\ offset >= 0 =>
                      res.segment =
                          SubSeq(content, offset + 1, Min(offset + length, total))
       ]_vars

\* C2 witness: a call strictly inside a text with more to come, and a call
\* for the last, shorter segment.
C2_Witness ==
    /\ CallHit
    /\ IsSuccess(segCall.result)
    /\ segCall.offset = length - 1
    /\ segCall.result.has_more
    /\ Len(response_cache[segCall.cache_id]) = MaxSegs * length

\* C4: a call with a stored id and an offset at or beyond the text's length
\* returns the out-of-range error, which carries no segment, and the step
\* leaves the cache and the counter as they were.
C4_OffsetBeyond ==
    [][(CallOfStored /\ segCall'.offset >= Len(response_cache[segCall'.cache_id]))
        => /\ IsOutOfRange(segCall'.result)
           /\ "segment" \notin DOMAIN segCall'.result
           /\ response_cache' = response_cache
           /\ cache_counter' = cache_counter]_vars

\* C4 witness: an offset equal to the length of a non-empty stored text was
\* asked for and refused.
C4_Witness ==
    /\ CallHit
    /\ segCall.offset = Len(response_cache[segCall.cache_id])
    /\ segCall.offset > 0
    /\ IsOutOfRange(segCall.result)

\* C3: a call with an id that is not in the cache returns the not-found
\* result, whose available ids are exactly the ids stored at that moment,
\* and the step leaves the cache and the counter as they were.
C3_UnknownId ==
    [][(op' = "get_markdown_segment" /\ segCall'.cache_id \notin DOMAIN response_cache)
        => /\ IsNotFound(segCall'.result)
           /\ segCall'.result.available_caches = DOMAIN response_cache
           /\ segCall'.result.available_caches = {issued[k].cache_id : k \in 1..Len(issued)}
           /\ response_cache' = response_cache
           /\ cache_counter' = cache_counter]_vars

\* C3 witness: an id that is not stored was asked for while another id was,
\* and the answer lists that other id.
C3_Witness ==
    /\ IsNotFound(segCall.result)
    /\ segCall.cache_id \notin DOMAIN response_cache
    /\ segCall.result.available_caches = DOMAIN response_cache
    /\ segCall.result.available_caches # {}

(***************************************************************************)
(* Claims about the chunker, checked under SpecChunk.                      *)
(***************************************************************************)
\* The last call split a readable PDF and the file system did not fail.
SplitRan == splitCall.called /\ splitCall.pdf.readable /\ splitCall.io = "ok"

\* C7: for P >= 1 pages and a requested maximum M >= 1 the call returns, with
\* M' = min(M, 40), exactly ceil(P / M') chunks in ascending start_page order
\* whose ranges [start_page, end_page) are contiguous, start at 0, end at P,
\* and each hold between 1 and M' pages.
C7_ChunkPartition ==
    (SplitRan /\ splitCall.pdf.pages >= 1) =>
        LET P == splitCall.pdf.pages
            M == splitCall.pages_per_chunk
            Mc == IF M < 40 THEN M ELSE 40
            res == splitCall.result
        IN  /\ res.outcome = "returned"
            /\ LET chunks == res.chunks
                   n == Len(chunks)
               IN  /\ n * Mc >= P
                   /\ (n - 1) * Mc < P
                   /\ chunks[1][1] = 0
                   /\ chunks[n][2] = P
                   /\ \A k \in 1..n :
                         /\ chunks[k][2] - chunks[k][1] >= 1
                         /\ chunks[k][2] - chunks[k][1] <= Mc
                   /\ \A k \in 1..(n - 1) :
                         /\ chunks[k][2] = chunks[k + 1][1]
                         /\ chunks[k][1] < chunks[k + 1][1]

\* C7 witness: 120 pages were split with a requested maximum above 40 and
\* three chunks came back.
C7_Witness ==
    /\ SplitRan
    /\ splitCall.pdf.pages = 120
    /\ splitCall.pages_per_chunk > 40
    /\ splitCall.result.outcome = "returned"
    /\ Len(splitCall.result.chunks) = 3

\* C8: splitting a PDF with zero pages signals a read error; it does not
\* return normally with an empty chunk sequence.
C8_ZeroPagesIsReadError ==
    (SplitRan /\ splitCall.pdf.pages = 0) =>
        /\ splitCall.result.outcome = "raised"
        /\ splitCall.result.error = "read"

(***************************************************************************)
(* Claims about read_as_markdown, checked under Spec.                      *)
(***************************************************************************)
\* The invocation r has been made with the remote engine and has not ended.
Remote(r) == req[r].pc \notin {"idle", "done", "raised"} /\ req[r].engine # "docling"

CallsOf(r, fn) == SelectSeq(req[r].calls, LAMBDA c : c.fn = fn)

\* C5: over every interleaving of overlapping invocations, no two stores
\* return the same cache id, every id returned to an invocation is one of
\* them, and every stored text is still in the cache under its id.
C5_IdsNeverReused ==
    /\ \A i, j \in 1..Len(issued) : i # j => issued[i].cache_id # issued[j].cache_id
    /\ \A k \in 1..Len(issued) :
          /\ issued[k].cache_id \in DOMAIN response_cache
          /\ response_cache[issued[k].cache_id] = issued[k].text
    /\ \A r, q \in Reqs :
          (r # q /\ req[r].pc = "done" /\ req[q].pc = "done")
              => req[r].ret[1].cache_id # req[q].ret[1].cache_id
    /\ \A r \in Reqs :
          req[r].pc = "done" =>
              \E k \in 1..Len(issued) :
                  /\ issued[k].cache_id = req[r].ret[1].cache_id
                  /\ Len(issued[k].text) = req[r].ret[1].total_chars

\* C5 witness: the second invocation was made while the first was suspended,
\* stored first, and the two stored their different texts under two ids.
C5_Witness ==
    /\ req[1].pc = "done"
    /\ req[2].pc = "done"
    /\ req[2].ret[1].cache_id = CacheId(0)
    /\ req[1].ret[1].cache_id = CacheId(1)
    /\ response_cache[CacheId(0)] # response_cache[CacheId(1)]

\* C6: every id in the cache stays in the cache with the same text; a
\* get_markdown_segment step changes neither the cache nor the counter; a
\* step that changes the cache adds exactly one new id.
C6_WriteOnce ==
    [][/\ \A id \in DOMAIN response_cache :
             id \in DOMAIN response_cache' /\ response_cache'[id] = response_cache[id]
       /\ op' = "get_markdown_segment" =>
             response_cache' = response_cache /\ cache_counter' = cache_counter
       /\ (response_cache' # response_cache \/ cache_counter' # cache_counter) =>
             /\ Cardinality(DOMAIN response_cache' \ DOMAIN response_cache) = 1
             /\ cache_counter' = cache_counter + 1
      ]_vars

\* C6 witness: two texts are cached and the first has since been read.
C6_Witness ==
    /\ Cardinality(DOMAIN response_cache) = 2
    /\ op = "get_markdown_segment"
    /\ IsSuccess(segCall.result)
    /\ segCall.cache_id = CacheId(0)

\* The chunks of a P-page document cut at 40 pages, in ascending order, in
\* the scratch directory of invocation r.
ExpectedChunkPaths(r, P) ==
    [k \in 1..((P + 39) \div 40) |->
        ChunkPath(TempDir(r), 40 * (k - 1), IF 40 * k < P THEN 40 * k ELSE P)]

\* C9: in remote mode a document of at most 40 pages is submitted whole in
\* one aparse call, the chunker is never called and no scratch directory is
\* made; a document of more than 40 pages is first split with maximum 40
\* and then all chunk files are submitted in one aparse call, in ascending
\* chunk order.
C9_Routing ==
    \A r \in Reqs :
        (Remote(r) /\ req[r].file.readable) =>
            LET P == req[r].file.pages
                pc == req[r].pc
                splits == CallsOf(r, "split_pdf_into_chunks")
                aparses == CallsOf(r, "aparse")
                submitted == pc \notin {"read_pages", "split", "submit_direct", "submit_batch"}
            IN  /\ Len(aparses) <= 1
                /\ Len(splits) <= 1
                /\ P <= 40 =>
                      /\ splits = <<>>
                      /\ req[r].temp_dir = None
                      /\ TempDir(r) \notin scratch
                      /\ pc \notin {"split", "submit_batch", "await_batch", "extract", "cleanup"}
                      /\ submitted => aparses = <<[fn |-> "aparse", arg |-> req[r].file.name]>>
                /\ P > 40 =>
                      /\ pc \notin {"submit_direct", "await_direct"}
                      /\ pc # "read_pages" /\ pc # "split" =>
                            /\ Len(req[r].calls) >= 1
                            /\ req[r].calls[1] =
                                  [fn  |-> "split_pdf_into_chunks",
                                   arg |-> <<req[r].file.name, 40>>]
                      /\ pc \in {"await_batch", "extract", "cleanup"} =>
                            /\ Len(req[r].calls) = 2
                            /\ req[r].calls[2] =
                                  [fn |-> "aparse", arg |-> ExpectedChunkPaths(r, P)]

\* C9 witness: one invocation waits for the whole 40-page document and the
\* other for the two chunks of the 41-page document.
C9_Witness ==
    /\ req[1].pc = "await_direct"
    /\ req[1].file.pages = 40
    /\ req[2].pc = "await_batch"
    /\ req[2].file.pages = 41
    /\ Len(req[2].awaited[1]) = 2

\* C10 (state part): in remote mode, once a step of the remote path has
\* failed, docling is called exactly once, on the original file, and if it
\* succeeds the text to return is docling's text of the whole file.
C10_FallbackState ==
    \A r \in Reqs :
        Remote(r) =>
            LET doclings == CallsOf(r, "docling.convert")
                pc == req[r].pc
            IN  /\ req[r].failures = <<>> => doclings = <<>>
                /\ Len(req[r].failures) <= 1
                /\ req[r].failures # <<>> =>
                      /\ pc \in {"cleanup", "fallback", "restore", "store"}
                      /\ pc \in {"cleanup", "fallback"} => doclings = <<>>
                      /\ pc \in {"restore", "store"} =>
                            /\ doclings = <<[fn  |-> "docling.convert",
                                             arg |-> req[r].file.name]>>
                            /\ pc = "store" \/ req[r].exc = None =>
                                  req[r].result_text = Some(LocalMd(req[r].file.name))

\* C10 (step part): the text an invocation caches and reports is the text it
\* held before the store.
C10_FallbackStore ==
    \A r \in Reqs :
        (req[r].pc = "store" /\ req'[r].pc = "done") =>
            /\ req'[r].ret[1].cache_id \in DOMAIN response_cache'
            /\ response_cache'[req'[r].ret[1].cache_id] = req[r].result_text[1]
            /\ req'[r].ret[1].total_chars = Len(req[r].result_text[1])

\* C10: local fallback.  Whenever a step of the remote path fails (reading
\* the page count, chunking, the remote submission, extracting the text), in
\* the direct or the chunking branch, docling is called exactly once on the
\* original document, and if it succeeds the returned and cached text is
\* docling's output for the whole document.
C10_LocalFallback == []C10_FallbackState /\ [][C10_FallbackStore]_vars

\* C10 witness: the batch of the chunked 41-page document failed, docling
\* converted the original and its text is about to be cached.
C10_Witness ==
    \E r \in Reqs :
        /\ req[r].pc = "store"
        /\ req[r].file.pages = 41
        /\ req[r].failures = <<"RemoteError">>
        /\ Len(CallsOf(r, "aparse")) = 1
        /\ req[r].result_text = Some(LocalMd(req[r].file.name))

\* The invocation r has ended, by returning or by raising.
Ended(r) == req[r].pc \in {"done", "raised"}

\* C11: scratch cleanup.  When an invocation has returned or raised, the
\* scratch directory the chunker made for it no longer exists, whichever step
\* failed after the directory was made (writing a chunk file, the batch
\* submission, the extraction, the local fallback).
C11_ScratchCleanup ==
    \A r \in Reqs : Ended(r) => TempDir(r) \notin scratch

(***************************************************************************)
(* SpecBatch: one invocation of read_as_markdown in the chunking branch,   *)
(* with a remote service that may hand the results back in another order   *)
(* than submitted, or hand back fewer results than paths.                  *)
(***************************************************************************)
\* Documents of two and of three chunks, with a full and a short last chunk.
BatchFiles ==
    {File("pdf/" \o ToString(n) \o "p.pdf", TRUE, TRUE, n) :
        n \in {chunk_size + 1, 2 * chunk_size, 2 * chunk_size + 1, 3 * chunk_size}}

BatchNext ==
    \/ \E file \in BatchFiles : Invoke(1, file, "llama-cloud")
    \/ ReadPages(1)
    \/ \E io \in {"ok", "mkdtemp", "write"} : Split(1, io)
    \/ SubmitBatch(1)
    \/ \E how \in BatchReplies \cup BatchFaults : BatchResume(1, how)
    \/ Extract(1)
    \/ Cleanup(1)
    \/ \E ok \in BOOLEAN : Fallback(1, ok)
    \/ Restore(1)
    \/ Store(1)
    \/ GetSegment(CacheId(0), 0)

SpecBatch == Init /\ [][BatchNext]_vars

(***************************************************************************)
(* Claims about the batch path, checked under SpecBatch.                   *)
(***************************************************************************)
\* The invocation r holds a text assembled from the job results of its batch.
Assembled(r) ==
    /\ req[r].pc \in {"cleanup", "restore", "store"}
    /\ req[r].chunks # None
    /\ req[r].job_results # None
    /\ req[r].failures = <<>>
    /\ req[r].result_text # None

\* The job result of every chunk of r, in ascending start_page order.
JobsInOrder(r) ==
    LET chunks == req[r].chunks[1]
    IN  [k \in 1..Len(chunks) |-> JobResult(chunks[k][3], chunks[k][1], chunks[k][2])]

\* The fragments of chunk 0, 1, ..., n-1 of r, concatenated with no separator.
FragmentsInOrder(r) ==
    LET jobs == JobsInOrder(r)
    IN  Join([k \in 1..Len(jobs) |-> JoinPages(jobs[k].pages[1])], "")

\* The service handed back the result of every chunk, in some order.
AllHandedBack(r) ==
    LET jobs == JobsInOrder(r)
        got == req[r].job_results[1]
    IN  /\ Len(got) = Len(jobs)
        /\ {got[k] : k \in 1..Len(got)} = {jobs[k] : k \in 1..Len(jobs)}

\* C12: reassembly order.  In the batch path the assembled text is the
\* concatenation, with no separator, of the fragments of chunk 0, 1, ..., n-1
\* in ascending start_page order, in whatever order the service hands the
\* per-chunk results back.
C12_ReassemblyOrder ==
    \A r \in Reqs :
        (Assembled(r) /\ AllHandedBack(r)) =>
            req[r].result_text[1] = FragmentsInOrder(r)

\* C19: no partial reassembly.  In the batch path a text assembled from the
\* remote results holds one fragment for every chunk the chunker produced;
\* with results missing for any chunk the remote results are discarded and
\* the text is that of the local fallback on the original document.
C19_NoPartialReassembly ==
    \A r \in Reqs :
        Assembled(r) => Len(req[r].job_results[1]) = Len(req[r].chunks[1])

(***************************************************************************)
(* Further claims about read_as_markdown, checked under Spec.              *)
(***************************************************************************)
\* The invocation r has been made with the local engine and has not ended.
Local(r) == req[r].pc \notin {"idle", "done", "raised"} /\ req[r].engine = "docling"

\* C13: forced local engine.  With engine "docling", for every page count,
\* the whole document goes to the local converter exactly once; nothing is
\* submitted to the remote service, the chunker is not called and no scratch
\* directory is made.
C13_ForcedLocal ==
    \A r \in Reqs :
        Local(r) =>
            LET pc == req[r].pc
            IN  /\ pc \in {"docling", "restore", "store"}
                /\ CallsOf(r, "aparse") = <<>>
                /\ CallsOf(r, "split_pdf_into_chunks") = <<>>
                /\ req[r].awaited = None
                /\ req[r].chunks = None
                /\ req[r].temp_dir = None
                /\ TempDir(r) \notin scratch
                /\ pc = "docling" => req[r].calls = <<>>
                /\ pc \in {"restore", "store"} =>
                      /\ req[r].calls =
                            <<[fn |-> "docling.convert", arg |-> req[r].file.name]>>
                      /\ pc = "store" \/ req[r].exc = None =>
                            req[r].result_text = Some(LocalMd(req[r].file.name))

\* C13 witness: a 41-page document was converted by the local engine and its
\* text is about to be cached.
C13_Witness ==
    \E r \in Reqs :
        /\ Local(r)
        /\ req[r].pc = "store"
        /\ req[r].file.pages > chunk_size
        /\ req[r].calls = <<[fn |-> "docling.convert", arg |-> req[r].file.name]>>

\* In the invocation r the remote path and then the local converter failed.
BothFailed(r) ==
    /\ Remote(r)
    /\ req[r].pc = "restore"
    /\ req[r].failures # <<>>
    /\ req[r].exc = Some("ConversionError")

\* C14 (step part): an invocation in which the local converter failed,
\* after the remote path failed or with the local engine forced, ends in its
\* next step by raising the conversion error; a step in which an invocation
\* raises leaves the cache and the counter as they were, and so does every
\* step of an invocation other than the one in which it returns.
C14_FatalStep ==
    \A r \in Reqs :
        /\ (req[r].pc = "restore" /\ req[r].exc # None /\ req'[r] # req[r]) =>
              /\ req[r].exc = Some("ConversionError")
              /\ req'[r] = Raised(Some("ConversionError"))
        /\ (req[r].pc # "raised" /\ req'[r].pc = "raised") =>
              /\ response_cache' = response_cache
              /\ cache_counter' = cache_counter
              /\ issued' = issued
        /\ (req'[r] # req[r] /\ req'[r].pc # "done") =>
              /\ response_cache' = response_cache
              /\ cache_counter' = cache_counter

\* C14 (ends, as stated): an invocation only ever ends by returning (DONE)
\* or by raising the conversion error (FATAL).
C14_EndsDoneOrFatal ==
    \A r \in Reqs :
        Ended(r) =>
            \/ req[r].pc = "done" /\ req[r].exc = None /\ req[r].ret # None
            \/ req[r].pc = "raised" /\ req[r].exc = Some("ConversionError")

\* C14 (ends, amended): an invocation only ever ends by returning (DONE), by
\* raising the conversion error (FATAL), or, for a path that names no
\* existing file, by raising FileNotFoundError; only a text that was
\* converted in full is ever about to be stored.
C14_Ends ==
    \A r \in Reqs :
        /\ Ended(r) =>
              \/ req[r].pc = "done" /\ req[r].exc = None /\ req[r].ret # None
              \/ req[r].pc = "raised" /\ req[r].exc = Some("ConversionError")
              \/ req[r].pc = "raised" /\ req[r].exc = Some("FileNotFoundError")
        /\ req[r].pc = "store" => req[r].exc = None /\ req[r].result_text # None

\* C14 (as stated): fatal outcome, with DONE and FATAL the only ends.
C14_FatalOutcomeOnly == []C14_EndsDoneOrFatal /\ [][C14_FatalStep]_vars

\* C14 (amended): fatal outcome.  When both the remote path and the local
\* converter fail the invocation ends by raising the conversion error and none
\* of its steps changes the cache or the counter; an invocation ends in DONE,
\* in FATAL, or, when the file does not exist, by raising FileNotFoundError
\* before any conversion is tried.
C14_FatalOutcome == []C14_Ends /\ [][C14_FatalStep]_vars

\* C14 witness: one invocation has ended by raising the conversion error, in
\* another the batch and then docling have failed, and nothing is cached.
C14_Witness ==
    /\ req[1].pc = "raised"
    /\ req[1].exc = Some("ConversionError")
    /\ BothFailed(2)
    /\ req[2].file.pages > chunk_size
    /\ response_cache = <<>>
    /\ cache_counter = 0

\* No invocation of read_as_markdown is in progress.
Quiescent == \A r \in Reqs : req[r].pc = "idle" \/ Ended(r)

\* C18: restoration of the diagnostic streams.  Whenever no invocation is in
\* progress, sys.stdout and sys.stderr are the streams that were installed
\* before the first invocation, for every interleaving of invocations that
\* suspend at their await between redirecting and restoring the streams.
C18_StreamsRestored ==
    Quiescent => stdout = OrigStdout /\ stderr = OrigStderr

(***************************************************************************)
(* A further claim about the segment cache, checked under SpecCache.       *)
(***************************************************************************)
\* C20: segment bounds.  For every stored id and every integer offset,
\* negative ones included, a success result carries a segment that is not
\* empty and lies wholly inside the text (0 <= offset and offset + length <=
\* total_length), and when has_more is true next_offset is greater than
\* offset and less than total_length.
C20_SegmentBounds ==
    IsSuccess(segCall.result) =>
        LET res == segCall.result
        IN  /\ res.length = Len(res.segment)
            /\ res.length >= 1
            /\ 0 <= res.offset
            /\ res.offset + res.length <= res.total_length
            /\ res.has_more =>
                  /\ res.next_offset # None
                  /\ res.next_offset[1] > res.offset
                  /\ res.next_offset[1] < res.total_length

(***************************************************************************)
(* Claims about download_sec_filing, checked under SpecFiling.             *)
(***************************************************************************)
\* The last call fetched the filing index.
Consulted ==
    /\ download.called
    /\ download.sec.index # None
    /\ Len(download.outcome.requests) >= 1

\* The date of a row as the claim defines it: reportDate when present,
\* filingDate otherwise; None when that is no date.
ClaimDate(rec) ==
    ToDatetime(IF rec.reportDate # None THEN rec.reportDate ELSE rec.filingDate)

\* The rows of the requested form whose date falls in the requested year.
Matching ==
    LET recent == download.sec.index[1]
    IN  {k \in 1..Len(recent) :
            /\ recent[k].form = download.filing_type
            /\ ClaimDate(recent[k]) # None
            /\ ClaimDate(recent[k])[1].year = download.year}

\* The matching row with the greatest date, the earliest of them in index
\* order.
Latest ==
    LET recent == download.sec.index[1]
        greatest == {k \in Matching :
                        \A j \in Matching :
                            DateKey(ClaimDate(recent[k])[1]) >= DateKey(ClaimDate(recent[j])[1])}
    IN  CHOOSE k \in greatest : \A j \in greatest : k <= j

\* C15: filing selection.  Among the rows of the requested form whose date
\* (reportDate when present, filingDate otherwise) falls in the requested
\* year, the call selects the row with the greatest date, and of several
\* rows with that date the earliest in index order; when no row matches it
\* returns an error that names the requested parameters.
C15_FilingSelection ==
    Consulted =>
        LET recent == download.sec.index[1]
            out == download.outcome
        IN  IF Matching = {}
            THEN /\ out.selected = None
                 /\ out.result = NoFilingFound(CikInt(download.cik)[1],
                                     download.year, download.filing_type)
            ELSE /\ out.selected = Some(Latest)
                 /\ Len(out.requests) = 2
                 /\ out.requests[2] =
                       ArchivesUrl(CikInt(download.cik)[1],
                           AccessionClean(recent[Latest].accessionNumber),
                           recent[Latest].primaryDocument)

\* The last call returned an error string.
ReturnedError == download.called /\ "error" \in DOMAIN download.outcome.result

\* C16: a call with a year outside 2021..2025 returns an error without
\* having made a network request or a file system write, whatever the other
\* arguments are.
C16_YearRejectedFirst ==
    (download.called /\ ~(download.year >= 2021 /\ download.year <= 2025)) =>
        /\ ReturnedError
        /\ download.outcome.requests = <<>>
        /\ download.outcome.made_dirs = {}
        /\ download.outcome.written = {}

\* C16 witness: the year 2026 was refused in a call whose other arguments
\* are valid and whose filing index could be fetched.
C16_Witness ==
    /\ download.called
    /\ download.year = 2026
    /\ download.cik = "320193"
    /\ download.filing_type = "10-K"
    /\ download.output_dir_path = "html/amzn_2024_8_k"
    /\ download.sec.index # None
    /\ download.outcome.result = [error |-> "year must be between 2021 and 2025."]
    /\ download.outcome.requests = <<>>

\* s.split("/")
RECURSIVE PathParts(_)
PathParts(s) ==
    IF \A i \in 1..Len(s) : Char(s, i) # "/" THEN <<s>>
    ELSE LET i == CHOOSE i \in 1..Len(s) :
                      Char(s, i) = "/" /\ \A j \in 1..(i - 1) : Char(s, j) # "/"
         IN  <<SubSeq(s, 1, i - 1)>> \o PathParts(SubSeq(s, i + 1, Len(s)))

\* The directory reached from the working directory by walking parts, on top
\* of the directories in stack.
RECURSIVE Walk(_, _)
Walk(parts, stack) ==
    IF parts = <<>> THEN stack
    ELSE LET part == Head(parts)
             rest == Tail(parts)
         IN  IF part = "" \/ part = "." THEN Walk(rest, stack)
             ELSE IF part = ".." /\ stack # <<>> /\ stack[Len(stack)] # ".."
             THEN Walk(rest, SubSeq(stack, 1, Len(stack) - 1))
             ELSE Walk(rest, Append(stack, part))

\* The location of the directory is the html folder or lies below it; both
\* separators count.
InsideHtml(output_dir_path) ==
    LET path == Replace(output_dir_path, "\\", "/")
        reached == Walk(PathParts(path), <<>>)
    IN  /\ ~StartsWith(path, "/")
        /\ reached # <<>>
        /\ reached[1] = "html"

\* C17: a call with an output directory that is not inside the html subtree
\* (an absolute path, another root, or a path that begins with html/ and
\* leaves the subtree through ".." components) returns an error, and makes
\* or writes no directory or file.
C17_OutsideHtmlRejected ==
    (download.called /\ ~InsideHtml(download.output_dir_path)) =>
        /\ ReturnedError
        /\ download.outcome.made_dirs = {}
        /\ download.outcome.written = {}

====
